---- MODULE Spec2Model ----
(***************************************************************************)
(* Model of exceptionservice/server.py: the webhook that files exception   *)
(* reports as tracker issues, or updates the issue a report duplicates.    *)
(* A text is the sequence of the code points of its characters.           *)
(***************************************************************************)
EXTENDS Integers, Sequences, FiniteSets, TLC

(***************************************************************************)
(* Bounds of the model.                                                    *)
(***************************************************************************)
\* longest raw summary handed to sanitize_jql_summary in SpecSanitize
MaxRawLen == 5
\* lengths of the configured JIRA_ISSUE_TITLE (exceptionservice.config): the
\* short one of the request specifications, the long one that makes
\* sanitize_jql_summary cut the raw summaries of SpecSanitize
ShortTitleLen == 1
LongTitleLen == 249
\* a title so long that the length limit of sanitize_jql_summary is negative
OverlongTitleLen == 254

(***************************************************************************)
(* Program constants.                                                      *)
(***************************************************************************)
MAX_SUMMARY_LENGTH == 255

BLACKLISTED_CHARACTERS ==
    {39, 34, 43, 45, 44, 63, 124, 42, 47, 37, 94, 36, 35, 64,  \* "'"+-,?|*/%^$#@"
     91, 93, 40, 41, 38}  \* "[]()&"

MAX_DESCRIPTION_LENGTH == 32767 - 767

(***************************************************************************)
(* Text helpers.                                                           *)
(***************************************************************************)
\* A character is its code point, which is what Python compares texts by.
\* The character classes below are those of Python 3 for the code points
\* below 256, the characters the model's texts are made of.

\* the characters Python's \s and str.strip() treat as whitespace:
\* tab to carriage return, the separators 28 to 31, space, next line (133)
\* and no-break space (160)
Whitespace == (9..13) \cup (28..32) \cup {133, 160}

\* the characters str.splitlines() breaks a line at ("\r\n" counts once)
LineBreaks == (10..13) \cup (28..30) \cup {133}

SetMax(S) == CHOOSE x \in S : \A y \in S : y <= x
SetMin(S) == CHOOSE x \in S : \A y \in S : x <= y

Min(x, y) == IF x < y THEN x ELSE y

\* input[:n]: the first n characters, and for a negative n all but the last -n
Take(s, n) ==
    LET stop == IF n < 0 THEN Len(s) + n ELSE n
    IN  IF stop <= 0 THEN <<>> ELSE IF Len(s) > stop THEN SubSeq(s, 1, stop) ELSE s

\* input[n:]
Drop(s, n) == IF n >= Len(s) THEN <<>> ELSE SubSeq(s, n + 1, Len(s))

RECURSIVE Concat(_)
Concat(ss) == IF ss = <<>> THEN <<>> ELSE Head(ss) \o Concat(Tail(ss))

\* str.find(c, from): 0-based index of the first c at or after from, -1 if none
Find(s, c, from) ==
    LET hits == {i \in from..(Len(s) - 1) : s[i + 1] = c}
    IN  IF hits = {} THEN -1 ELSE SetMin(hits)

\* str.count(c)
Count(s, c) == Cardinality({i \in 1..Len(s) : s[i] = c})

\* str.lstrip() / str.rstrip() / str.strip()
RECURSIVE LStrip(_)
LStrip(s) ==
    IF s # <<>> /\ Head(s) \in Whitespace THEN LStrip(Tail(s)) ELSE s

RECURSIVE RStrip(_)
RStrip(s) ==
    IF s # <<>> /\ s[Len(s)] \in Whitespace
    THEN RStrip(SubSeq(s, 1, Len(s) - 1)) ELSE s

Strip(s) == RStrip(LStrip(s))

\* re.sub('\s+', ' ', input): every maximal run of whitespace becomes one space
RECURSIVE CollapseWhitespace(_)
CollapseWhitespace(s) ==
    IF s = <<>> THEN <<>>
    ELSE IF Head(s) \in Whitespace
         THEN <<32>> \o CollapseWhitespace(LStrip(s))  \* " "
         ELSE <<Head(s)>> \o CollapseWhitespace(Tail(s))

(***************************************************************************)
(* State.                                                                  *)
(***************************************************************************)
VARIABLES
    JIRA_ISSUE_TITLE,   \* configuration: the title every created issue starts with
    issues,             \* the tracker: its issues, in the order a search lists them
    current_sprint,     \* the tracker: the name of the one active sprint
    max_results,        \* the tracker: the page size its search reports
    mode,               \* "serial": one request at a time; "concurrent": overlapping
    req,                \* per worker: the request it serves and how far it is
    san                 \* SpecSanitize: raw summary, query flag, results so far

vars == <<JIRA_ISSUE_TITLE, issues, current_sprint, max_results, mode, req, san>>

(***************************************************************************)
(* The text sanitizer.                                                     *)
(***************************************************************************)
trim_length(input, max_length) ==
    IF Len(input) > max_length THEN Take(input, max_length) ELSE input

filter_out_blacklisted_characters(input) ==
    SelectSeq(input, LAMBDA c : c \notin BLACKLISTED_CHARACTERS)

trim_whitespace(input) == Strip(CollapseWhitespace(input))

sanitize_jql_summary(raw, trim_for_query) ==
    LET filtered  == filter_out_blacklisted_characters(raw)
        trimmed   == trim_whitespace(filtered)
        max_length == MAX_SUMMARY_LENGTH - Len(JIRA_ISSUE_TITLE) - 2
        sanitized == trim_length(trimmed, max_length)
    IN  IF trim_for_query /\ Count(sanitized, 58) >= 2  \* ":"
        THEN Take(sanitized, Find(sanitized, 58, Find(sanitized, 58, 0) + 1))  \* "::"
        ELSE sanitized

(***************************************************************************)
(* Character classes and case folding.                                     *)
(***************************************************************************)
\* "A" to "Z", "a" to "z" and "0" to "9", in order
UpperLetters == [i \in 1..26 |-> 64 + i]

LowerLetters == [i \in 1..26 |-> 96 + i]

DigitChars == [i \in 1..10 |-> 47 + i]

Range(f) == {f[i] : i \in DOMAIN f}

\* the capital letters str.lower() folds, each to the letter 32 code points on
UpperSet == (65..90) \cup (192..214) \cup (216..222)

\* the characters the regular expression class \d accepts
DigitSet == Range(DigitChars)

\* the characters the regular expression class \w accepts (\W is the rest):
\* by Unicode, so the letters and numbers above code point 127 as well
WordChars ==
    (48..57) \cup (65..90) \cup {95} \cup (97..122)
    \cup {170, 178, 179, 181, 185, 186} \cup (188..190)
    \cup (192..214) \cup (216..246) \cup (248..255)

LowerChar(c) == IF c \in UpperSet THEN c + 32 ELSE c

\* str.lower()
Lower(s) == [i \in DOMAIN s |-> LowerChar(s[i])]

\* '{}'.format(n) for an integer n
RECURSIVE FormatInt(_)
FormatInt(n) ==
    IF n < 0 THEN <<45>> \o FormatInt(-n)  \* "-"
    ELSE IF n < 10 THEN <<DigitChars[n + 1]>>
    ELSE FormatInt(n \div 10) \o <<DigitChars[(n % 10) + 1]>>

\* int(digits) for a non-empty sequence of decimal digits
RECURSIVE ParseInt(_)
ParseInt(ds) ==
    IF ds = <<>> THEN 0
    ELSE ParseInt(SubSeq(ds, 1, Len(ds) - 1)) * 10
         + ((CHOOSE i \in DOMAIN DigitChars : DigitChars[i] = ds[Len(ds)]) - 1)

\* s with its leading characters of class cls removed
RECURSIVE SkipWhile(_, _)
SkipWhile(s, cls) ==
    IF s # <<>> /\ Head(s) \in cls THEN SkipWhile(Tail(s), cls) ELSE s

\* s with its leading characters outside class cls removed
RECURSIVE SkipUntil(_, _)
SkipUntil(s, cls) ==
    IF s # <<>> /\ Head(s) \notin cls THEN SkipUntil(Tail(s), cls) ELSE s

\* s.startswith(prefix), ignoring case
StartsWithIgnoreCase(s, prefix) ==
    Len(s) >= Len(prefix) /\ Lower(SubSeq(s, 1, Len(prefix))) = Lower(prefix)

\* str.splitlines(): lines without their line breaks; "\r\n" is one break and
\* a final break opens no empty last line
RECURSIVE SplitLines(_)
SplitLines(s) ==
    LET breaks == {i \in 1..Len(s) : s[i] \in LineBreaks}
        at     == SetMin(breaks)
        width  == IF s[at] = 13 /\ at < Len(s) /\ s[at + 1] = 10 THEN 2 ELSE 1  \* "\r\n"
    IN  IF s = <<>> THEN <<>>
        ELSE IF breaks = {} THEN <<s>>
        ELSE <<SubSeq(s, 1, at - 1)>> \o SplitLines(Drop(s, at - 1 + width))

\* str.partition(c)[0]: the text before the first c, all of it if there is none
PartitionHead(s, c) ==
    LET at == Find(s, c, 0) IN IF at < 0 THEN s ELSE Take(s, at)

\* whether s[at:] starts with sub (at is 0-based)
StartsWithAt(s, sub, at) ==
    at + Len(sub) <= Len(s) /\ SubSeq(s, at + 1, at + Len(sub)) = sub

\* str.find(sub, from) for a text sub: 0-based index, -1 if none
FindText(s, sub, from) ==
    LET hits == {i \in from..(Len(s) - Len(sub)) : StartsWithAt(s, sub, i)}
    IN  IF hits = {} THEN -1 ELSE SetMin(hits)

\* str.split(sep) for a non-empty text sep
RECURSIVE SplitText(_, _)
SplitText(s, sep) ==
    LET at == FindText(s, sep, 0)
    IN  IF at < 0 THEN <<s>>
        ELSE <<Take(s, at)>> \o SplitText(Drop(s, at + Len(sep)), sep)

(***************************************************************************)
(* difflib.SequenceMatcher, as determine_if_duplicate uses it: junk is     *)
(* space, newline and tab, and autojunk is left on, so that in a second    *)
(* text of 200 elements or more the popular elements start no block.       *)
(* Indices are 0-based and ranges half-open, as in the library.            *)
(***************************************************************************)
\* lambda x: x == ' ' or x == '\n' or x == '\t'
IsJunk(c) == c = 32 \/ c = 10 \/ c = 9  \* " \n\t"

\* the popular elements of b: with n = len(b) >= 200, the elements that are
\* no junk and occur more than n // 100 + 1 times
Popular(b) ==
    IF Len(b) >= 200
    THEN {c \in Range(b) : ~IsJunk(c) /\ Count(b, c) > Len(b) \div 100 + 1}
    ELSE {}

\* the elements b2j indexes: those of b that are neither junk nor popular
Indexed(b) == {c \in Range(b) : ~IsJunk(c)} \ Popular(b)

\* how many of the steps 1..limit are taken before the first of those in stops
StepsBefore(stops, limit) == IF stops = {} THEN limit ELSE SetMin(stops) - 1

\* length of the longest common run of a[i:ahi] and b[j:bhi] from their starts
\* whose elements are indexed by b2j
RunLen(a, b, b2j, i, j, ahi, bhi) ==
    LET limit == Min(ahi - i, bhi - j)
    IN  StepsBefore({e \in 1..limit : ~(a[i + e] = b[j + e] /\ b[j + e] \in b2j)}, limit)

\* a match <<i, j, k>> grown to the left over equal elements whose junk-ness is junk
ExtendLeft(a, b, m, alo, blo, junk) ==
    LET limit == Min(m[1] - alo, m[2] - blo)
        d == StepsBefore({e \in 1..limit : ~(/\ IsJunk(b[m[2] - e + 1]) = junk
                                              /\ a[m[1] - e + 1] = b[m[2] - e + 1])},
                         limit)
    IN  <<m[1] - d, m[2] - d, m[3] + d>>

\* the same to the right
ExtendRight(a, b, m, ahi, bhi, junk) ==
    LET limit == Min(ahi - m[1] - m[3], bhi - m[2] - m[3])
        d == StepsBefore({e \in 1..limit : ~(/\ IsJunk(b[m[2] + m[3] + e]) = junk
                                              /\ a[m[1] + m[3] + e] = b[m[2] + m[3] + e])},
                         limit)
    IN  <<m[1], m[2], m[3] + d>>

\* find_longest_match with the index b2j at hand: the longest block of
\* indexed elements, the earliest in a and then in b among the longest
\* (<<alo, blo, 0>> if there is none), grown over elements that are no junk
\* and then over junk on both sides
LongestMatch(a, b, b2j, alo, ahi, blo, bhi) ==
    LET starts == {p \in (alo..(ahi - 1)) \X (blo..(bhi - 1)) :
                      b[p[2] + 1] \in b2j /\ a[p[1] + 1] = b[p[2] + 1]}
        run[p \in starts] == RunLen(a, b, b2j, p[1], p[2], ahi, bhi)
        bestsize == IF starts = {} THEN 0 ELSE SetMax({run[p] : p \in starts})
        besti == IF bestsize = 0 THEN alo
                 ELSE SetMin({p[1] : p \in {q \in starts : run[q] = bestsize}})
        bestj == IF bestsize = 0 THEN blo
                 ELSE SetMin({p[2] : p \in {q \in starts : run[q] = bestsize /\ q[1] = besti}})
        m0 == <<besti, bestj, bestsize>>
        m1 == ExtendLeft(a, b, m0, alo, blo, FALSE)
        m2 == ExtendRight(a, b, m1, ahi, bhi, FALSE)
        m3 == ExtendLeft(a, b, m2, alo, blo, TRUE)
    IN  ExtendRight(a, b, m3, ahi, bhi, TRUE)

\* SequenceMatcher.find_longest_match(alo, ahi, blo, bhi)
FindLongestMatch(a, b, alo, ahi, blo, bhi) ==
    LongestMatch(a, b, Indexed(b), alo, ahi, blo, bhi)

\* the summed size of the blocks get_matching_blocks() finds within the ranges
RECURSIVE BlocksSize(_, _, _, _, _, _, _)
BlocksSize(a, b, b2j, alo, ahi, blo, bhi) ==
    LET m == LongestMatch(a, b, b2j, alo, ahi, blo, bhi)
        i == m[1]
        j == m[2]
        k == m[3]
    IN  IF k = 0 THEN 0
        ELSE k + (IF alo < i /\ blo < j
                  THEN BlocksSize(a, b, b2j, alo, i, blo, j) ELSE 0)
               + (IF i + k < ahi /\ j + k < bhi
                  THEN BlocksSize(a, b, b2j, i + k, ahi, j + k, bhi) ELSE 0)

\* the summed size of SequenceMatcher.get_matching_blocks() within the ranges
MatchingSize(a, b, alo, ahi, blo, bhi) ==
    BlocksSize(a, b, Indexed(b), alo, ahi, blo, bhi)

\* a ratio is a pair <<numerator, denominator>>; 1.0 for two empty texts
Calculate(matches, length) ==
    IF length = 0 THEN <<1, 1>> ELSE <<2 * matches, length>>

\* SequenceMatcher.ratio()
Ratio(a, b) == Calculate(MatchingSize(a, b, 0, Len(a), 0, Len(b)), Len(a) + Len(b))

\* SequenceMatcher.real_quick_ratio()
RealQuickRatio(a, b) ==
    Calculate(IF Len(a) < Len(b) THEN Len(a) ELSE Len(b), Len(a) + Len(b))

\* r > tenths / 10
RatioAbove(r, tenths) == r[1] * 10 > tenths * r[2]

(***************************************************************************)
(* The throw-location check.                                               *)
(***************************************************************************)
\* REGEX_CAUSED_BY.match(line): \W*caused\W+by at the start, ignoring case
RegexCausedByMatches(line) ==
    LET s1 == SkipUntil(line, WordChars)
        s2 == Drop(s1, 6)
        s3 == SkipUntil(s2, WordChars)
    IN  /\ StartsWithIgnoreCase(s1, <<99, 97, 117, 115, 101, 100>>)  \* "caused"
        /\ Len(s3) < Len(s2)
        /\ StartsWithIgnoreCase(s3, <<98, 121>>)  \* "by"

\* lines[loc_last_causedby_line + 1].partition(':')[0]: the text before the
\* first colon of the line after the last "caused by" line (of the first line
\* if there is none), as <<text>>; <<>> stands for the IndexError raised when
\* the text has no such line
first_line_caused_by_from_printed_stacktrace(printed_stacktrace) ==
    LET lines == SplitLines(printed_stacktrace)
        hits  == {i \in 1..Len(lines) : RegexCausedByMatches(lines[i])}
        \* 1-based index of lines[loc_last_causedby_line + 1]
        at    == IF hits = {} THEN 1 ELSE SetMax(hits) + 1
    IN  IF at > Len(lines) THEN <<>>
        ELSE <<PartitionHead(lines[at], 58)>>  \* ":"

\* a comparison that ignores the throw locations
ThrowLocationIgnored(new_stacktrace, issue_stacktrace) == "True"

\* "True", "False", or "IndexError" when either text has no line there
matches_exception_throw_location(new_stacktrace, issue_stacktrace) ==
    LET line_new_stacktrace   == first_line_caused_by_from_printed_stacktrace(new_stacktrace)
        line_issue_stacktrace == first_line_caused_by_from_printed_stacktrace(issue_stacktrace)
    IN  IF line_new_stacktrace = <<>> \/ line_issue_stacktrace = <<>>
        THEN "IndexError"
        ELSE IF line_new_stacktrace = line_issue_stacktrace THEN "True" ELSE "False"

(***************************************************************************)
(* Results of operations that may raise: Ok(v), or Raise(e) for the        *)
(* exception e.                                                            *)
(***************************************************************************)
Ok(v) == [exc |-> "none", value |-> v]
Raise(e) == [exc |-> e]
Raised(r) == r.exc # "none"

(***************************************************************************)
(* Literal texts of the source.                                            *)
(***************************************************************************)
TxtCausedBy == <<67, 97, 117, 115, 101, 100, 32, 98, 121, 58, 32>>  \* "Caused by: "
TxtAt == <<9, 97, 116, 32>>  \* "\tat "
TxtDetails == <<10, 10, 68, 101, 116, 97, 105, 108, 115, 58, 10>>  \* "\n\nDetails:\n"
TxtStacktrace == <<10, 10, 83, 116, 97, 99, 107, 116, 114, 97, 99, 101, 58, 10>>  \* "\n\nStacktrace:\n"
TxtNoformat == <<123, 110, 111, 102, 111, 114, 109, 97, 116, 125>>  \* "{noformat}"
TxtCountKey == <<99, 111, 117, 110, 116, 58>>  \* "count:"
TxtCount == <<67, 111, 117, 110, 116, 58, 32>>  \* "Count: "
TxtLast == <<76, 97, 115, 116, 58, 32>>  \* "Last: "
TxtClosed == <<99, 108, 111, 115, 101, 100>>  \* "closed"
TxtResolved == <<114, 101, 115, 111, 108, 118, 101, 100>>  \* "resolved"

\* str(datetime.now()): the reading of the clock, one fixed text in this model
Now == <<50, 48, 50, 54>>  \* "2026"

\* a < b for texts
RECURSIVE TextLess(_, _)
TextLess(a, b) ==
    IF b = <<>> THEN FALSE
    ELSE IF a = <<>> THEN TRUE
    ELSE IF Head(a) = Head(b) THEN TextLess(Tail(a), Tail(b))
    ELSE Head(a) < Head(b)

(***************************************************************************)
(* The stack-trace extractor.  A report is json_data: keys is the set of   *)
(* its top-level keys, meta its other fields in order.                     *)
(***************************************************************************)
\* stacks[len(stacks) - 1]['message']
get_summary_from_message(json_data) ==
    IF "stacktrace" \notin json_data.keys THEN Raise("KeyError")
    ELSE LET stacks == json_data.stacktrace
         IN  IF Len(stacks) = 0 THEN Raise("IndexError")
             ELSE Ok(stacks[Len(stacks)].message)

\* '\tat {}.{}({}:{})\n' for a line that is no native method, nothing for one that is
RenderLine(line) ==
    IF line.nativeMethod THEN <<>>
    ELSE TxtAt \o line.className \o <<46>> \o line.methodName \o <<40>>  \* ".("
         \o line.fileName \o <<58>> \o FormatInt(line.lineNumber) \o <<41, 10>>  \* ":)\n"

\* 'Caused by: {}\n' and the lines of one cause frame
RenderFrame(trace) ==
    TxtCausedBy \o trace.message \o <<10>>  \* "\n"
    \o Concat([i \in DOMAIN trace.stacktrace |-> RenderLine(trace.stacktrace[i])])

\* Ok(text), or Raise("KeyError") for a report without 'stacktrace'
get_stacktrace_from_message(json_data) ==
    IF "stacktrace" \notin json_data.keys THEN Raise("KeyError")
    ELSE Ok(Concat([i \in DOMAIN json_data.stacktrace |->
                      RenderFrame(json_data.stacktrace[i])]))

\* '  {}: {}\n' for every field but stacktrace, screenshots and logs
create_details_string_from_json(json_data) ==
    Concat([i \in DOMAIN json_data.meta |->
              <<32, 32>> \o json_data.meta[i][1] \o <<58, 32>>  \* "  : "
              \o json_data.meta[i][2] \o <<10>>])  \* "\n"

(***************************************************************************)
(* What is read from a tracker issue.                                      *)
(***************************************************************************)
\* description.split('{noformat}')[1] when there are at least three blocks
get_stacktrace_from_issue(issue) ==
    LET description_blocks == SplitText(issue.fields.description, TxtNoformat)
    IN  IF Len(description_blocks) >= 3 THEN description_blocks[2] ELSE <<>>

\* sorted(fix_versions, key=itemgetter('name'), reverse=True)[0]: the first
\* version of the greatest name; Raise("IndexError") for no versions
get_latest_fix_version(fix_versions) ==
    IF Len(fix_versions) = 0 THEN Raise("IndexError")
    ELSE LET top(i) == \A j \in DOMAIN fix_versions :
                          ~TextLess(fix_versions[i].name, fix_versions[j].name)
         IN  Ok(fix_versions[SetMin({i \in DOMAIN fix_versions : top(i)})])

\* a status comparison that minds the case of the letters
ClosedCaseSensitive(status) == status = TxtClosed \/ status = TxtResolved

is_issue_closed(status) == Lower(status) = TxtClosed \/ Lower(status) = TxtResolved

\* should_reopen_if_closed, given what get_current_sprint() returned
should_reopen_if_closed(issue_is_closed, fixed_in_sprint, sprint) ==
    LET is_closed_in_current_sprint == sprint = fixed_in_sprint
    IN  issue_is_closed /\ ~is_closed_in_current_sprint

\* the leading decimal digits of s
RECURSIVE LeadingDigits(_)
LeadingDigits(s) ==
    IF s # <<>> /\ Head(s) \in DigitSet
    THEN <<Head(s)>> \o LeadingDigits(Tail(s)) ELSE <<>>

\* REGEX_COUNT.match(text).group(1) for .*count:\s+(\d+), ignoring case:
\* <<digits>>, or <<>> when there is no match.  '.*' takes the longest prefix
\* of the first line after which the rest matches
RegexCountGroup(text) ==
    LET nl       == Find(text, 10, 0)  \* "\n"
        firstLen == IF nl < 0 THEN Len(text) ELSE nl
        digitsAt(p) == LET rest == Drop(text, p + Len(TxtCountKey))
                           tail == SkipWhile(rest, Whitespace)
                       IN  IF /\ StartsWithIgnoreCase(Drop(text, p), TxtCountKey)
                              /\ Len(tail) < Len(rest)
                           THEN LeadingDigits(tail) ELSE <<>>
        hits     == {p \in 0..firstLen : digitsAt(p) # <<>>}
    IN  IF hits = {} THEN <<>> ELSE <<digitsAt(SetMax(hits))>>

\* the count calculate_issue_occurrence_count writes; existing_count is
\* <<>> for None and <<text>> for a text
NextOccurrenceCount(existing_count) ==
    IF existing_count # <<>> /\ Len(existing_count[1]) > 0
       /\ RegexCountGroup(existing_count[1]) # <<>>
    THEN ParseInt(RegexCountGroup(existing_count[1])[1]) + 1
    ELSE 1

\* 'Count: {}\nLast: {}'.format(count, datetime.now())
calculate_issue_occurrence_count(existing_count) ==
    TxtCount \o FormatInt(NextOccurrenceCount(existing_count)) \o <<10>>  \* "\n"
    \o TxtLast \o Now

(***************************************************************************)
(* base64.b64decode, as binascii.a2b_base64 decodes without validation:    *)
(* characters outside the alphabet are skipped, decoding stops at complete *)
(* padding, and an incomplete last quad raises binascii.Error.  A text is  *)
(* first encoded as ASCII.                                                 *)
(***************************************************************************)
Base64Alphabet == UpperLetters \o LowerLetters \o DigitChars \o <<43, 47>>  \* "+/"

Base64Set == Range(Base64Alphabet)

Base64Value(c) == (CHOOSE i \in DOMAIN Base64Alphabet : Base64Alphabet[i] = c) - 1

RECURSIVE B64Scan(_, _, _, _, _)
B64Scan(s, quad_pos, leftchar, pads, out) ==
    IF s = <<>>
    THEN IF quad_pos # 0 THEN Raise("binascii.Error") ELSE Ok(out)
    ELSE LET c == Head(s) IN
         IF c = 61  \* "="
         THEN IF quad_pos >= 2
              THEN IF quad_pos + pads + 1 >= 4 THEN Ok(out)
                   ELSE B64Scan(Tail(s), quad_pos, leftchar, pads + 1, out)
              ELSE B64Scan(Tail(s), quad_pos, leftchar, pads, out)
         ELSE IF c \notin Base64Set
         THEN B64Scan(Tail(s), quad_pos, leftchar, pads, out)
         ELSE LET v == Base64Value(c) IN
              CASE quad_pos = 0 -> B64Scan(Tail(s), 1, v, 0, out)
                [] quad_pos = 1 -> B64Scan(Tail(s), 2, v % 16, 0,
                                           Append(out, leftchar * 4 + v \div 16))
                [] quad_pos = 2 -> B64Scan(Tail(s), 3, v % 4, 0,
                                           Append(out, leftchar * 16 + v \div 4))
                [] OTHER        -> B64Scan(Tail(s), 0, 0, 0,
                                           Append(out, leftchar * 64 + v))

\* the characters a text can hold that str.encode('ascii') accepts
Ascii == 0..127

\* Ok(bytes), Raise("binascii.Error"), or Raise("ValueError") for a text
\* with a character outside ASCII, which b64decode refuses before it decodes
b64decode(s) ==
    IF \E i \in DOMAIN s : s[i] \notin Ascii THEN Raise("ValueError")
    ELSE B64Scan(s, 0, 0, 0, <<>>)

\* a configured title of n characters
Title(n) == [i \in 1..n |-> 84]  \* "T"

(***************************************************************************)
(* The reports of the model.                                               *)
(***************************************************************************)
StackLine(c, m, f, n, native) ==
    [className |-> c, methodName |-> m, fileName |-> f, lineNumber |-> n,
     nativeMethod |-> native]

CauseFrame(message, lines) == [message |-> message, stacktrace |-> lines]

Report(keys, frames, logs, screenshots, meta) ==
    [keys |-> keys, stacktrace |-> frames, logs |-> logs,
     screenshots |-> screenshots, meta |-> meta]

LineAB == StackLine(<<97>>, <<98>>, <<99>>, 1, FALSE)  \* "abc"
LineXB == StackLine(<<120>>, <<98>>, <<99>>, 1, FALSE)  \* "xbc"
LineNative == StackLine(<<110>>, <<110>>, <<110>>, -2, TRUE)  \* "nnn"
\* a line of a.b whose line number is not known
LineUnknown == StackLine(<<97>>, <<98>>, <<99>>, -1, FALSE)  \* "abc"

MsgA == <<65, 58, 32, 109>>  \* "A: m"
MsgB == <<66, 58, 32, 109>>  \* "B: m"
MsgL == <<76, 58, 32, 109>>  \* "L: m"

\* how many stack lines a long trace has: with its "Caused by" line it
\* passes the 200 characters from which SequenceMatcher drops popular
\* characters from its index
LongTraceLines == 16

\* the stack lines of a long trace thrown at l.b, the sixth at line n of c
LongLines(n) ==
    [i \in 1..LongTraceLines |->
        StackLine(<<108>>, <<98>>, <<99>>, IF i = 6 THEN n ELSE 1, FALSE)]  \* "lbc"

\* the report an issue with a long trace was filed for
LongStored == Report({"stacktrace"}, <<CauseFrame(MsgL, LongLines(1))>>, <<>>, <<>>, <<>>)

Reports ==
    << \* 1: exception A thrown at a.b
       Report({"stacktrace"}, <<CauseFrame(MsgA, <<LineAB, LineNative>>)>>,
              <<>>, <<>>, <<>>),
       \* 2: as 1 but for the exception class named on its "Caused by" line
       Report({"stacktrace"}, <<CauseFrame(MsgB, <<LineAB>>)>>, <<>>, <<>>, <<>>),
       \* 3: as 1 but thrown at x.b
       Report({"stacktrace"}, <<CauseFrame(MsgA, <<LineXB>>)>>, <<>>, <<>>, <<>>),
       \* 4: one cause frame without stack lines
       Report({"stacktrace"}, <<CauseFrame(MsgA, <<>>)>>, <<>>, <<>>, <<>>),
       \* 5: an empty sequence of cause frames
       Report({"stacktrace"}, <<>>, <<>>, <<>>, <<>>),
       \* 6: no cause frames at all, only another field
       Report({}, <<>>, <<>>, <<>>, <<<< <<118>>, <<49>> >>>>),  \* "v1"
       \* 7: as 1, with a log archive that is not base64 and one screenshot
       Report({"stacktrace", "logs", "screenshots"},
              <<CauseFrame(MsgA, <<LineAB>>)>>,
              <<81, 81>>, << <<81, 81, 61, 61>> >>, <<>>),  \* "QQQQ=="
       \* 8: as 1, with a further line of unknown line number and a log
       \* archive that decodes
       Report({"stacktrace", "logs"}, <<CauseFrame(MsgA, <<LineAB, LineUnknown>>)>>,
              <<81, 81, 61, 61>>, <<>>, <<>>),  \* "QQ=="
       \* 9: exception L thrown at l.b under a long trace, which differs from
       \* the trace of LongStored in the line number of its sixth stack line
       Report({"stacktrace"}, <<CauseFrame(MsgL, LongLines(2))>>, <<>>, <<>>, <<>>) >>

ReportIds == DOMAIN Reports

\* the stack traces of the reports
ReportTraces ==
    {get_stacktrace_from_message(Reports[r]).value :
        r \in {q \in ReportIds : "stacktrace" \in Reports[q].keys}}
    \cup {get_stacktrace_from_message(LongStored).value}

\* Ratio on every pair of texts the reports above lead to: a trace trimmed to
\* the length of another, and that other.  Computed once.
RatioMemo ==
    [p \in {<<Take(a, Len(b)), b>> : a \in ReportTraces, b \in ReportTraces}
       |-> Ratio(p[1], p[2])]

\* Ratio(a, b), looked up where it was computed before
RatioOf(a, b) ==
    IF <<a, b>> \in DOMAIN RatioMemo THEN RatioMemo[<<a, b>>] ELSE Ratio(a, b)

(***************************************************************************)
(* The duplicate resolver.                                                 *)
(***************************************************************************)
\* s.ratio() if s.real_quick_ratio() > 0.6 else 0
match_ratio(new_trimmed_stacktrace, issue_stacktrace) ==
    IF RatioAbove(RealQuickRatio(new_trimmed_stacktrace, issue_stacktrace), 6)
    THEN RatioOf(new_trimmed_stacktrace, issue_stacktrace)
    ELSE <<0, 1>>

\* new_stacktrace[:len(issue_stacktrace)]
new_trimmed(new_stacktrace, issue) == Take(new_stacktrace, Len(get_stacktrace_from_issue(issue)))

\* a matcher no ratio satisfies
RatioNeverPasses(new_stacktrace, issue) == FALSE

\* len(issue_stacktrace) > 0 and match_ratio > 0.7, the part of the condition
\* evaluated before the throw locations are compared
ratio_passes(new_stacktrace, issue) ==
    /\ Len(get_stacktrace_from_issue(issue)) > 0
    /\ RatioAbove(match_ratio(new_trimmed(new_stacktrace, issue),
                              get_stacktrace_from_issue(issue)), 7)

NegativeVerdict ==
    [is_duplicate |-> FALSE, key |-> 0, status |-> <<>>, environment |-> <<>>,
     fix_version |-> <<>>]

\* the loop of determine_if_duplicate over issue_list: Ok(verdict), or
\* Raise("IndexError") from the throw-location check or from an issue
\* without fix versions
RECURSIVE determine_if_duplicate(_, _)
determine_if_duplicate(new_stacktrace, issue_list) ==
    IF issue_list = <<>> THEN Ok(NegativeVerdict)
    ELSE LET issue == Head(issue_list)
             location == matches_exception_throw_location(
                             new_trimmed(new_stacktrace, issue),
                             get_stacktrace_from_issue(issue))
             latest == get_latest_fix_version(issue.fields.fixVersions)
         IN  IF ~ratio_passes(new_stacktrace, issue)
             THEN determine_if_duplicate(new_stacktrace, Tail(issue_list))
             ELSE IF location = "IndexError" THEN Raise("IndexError")
             ELSE IF location = "False"
             THEN determine_if_duplicate(new_stacktrace, Tail(issue_list))
             ELSE IF Raised(latest) THEN Raise("IndexError")
             ELSE Ok([is_duplicate |-> TRUE,
                      key          |-> issue.key,
                      status       |-> issue.fields.status.name,
                      environment  |-> issue.fields.environment,
                      fix_version  |-> latest.value.name])

\* a search that takes any response for a success
AnyStatusOk(status_code) == TRUE

\* find_existing_jira_issues: a response other than 200 raises InternalError
SearchOk(status_code) == status_code = 200

\* a page test that stops one issue early
MorePagesOffByOne(total_results, start_at, page_size) ==
    total_results > start_at + page_size + 1

\* total_results > start_at + max_results: whether another page is requested
MorePages(total_results, start_at, page_size) == total_results > start_at + page_size

\* the list the recursion returns: each call puts the later pages' issues
\* before its own (issue_list + resp.json()['issues'])
RECURSIVE Unwind(_)
Unwind(pages) == IF pages = <<>> THEN <<>> ELSE Unwind(Tail(pages)) \o Head(pages)

(***************************************************************************)
(* The issue synchronizer.                                                 *)
(***************************************************************************)
\* '{}: {}'.format(JIRA_ISSUE_TITLE, summary)
IssueTitle(summary) == JIRA_ISSUE_TITLE \o <<58, 32>> \o summary  \* ": "

\* '{}\n\nDetails:\n{}\n\nStacktrace:\n{{noformat}}{}{{noformat}}'
IssueDescription(summary, details, stacktrace) ==
    summary \o TxtDetails \o details \o TxtStacktrace \o TxtNoformat
    \o trim_length(stacktrace, MAX_DESCRIPTION_LENGTH) \o TxtNoformat

\* the fields add_to_jira sends for a report
NewIssueFields(json_data) ==
    LET summary == sanitize_jql_summary(get_summary_from_message(json_data).value, FALSE)
    IN  [summary     |-> IssueTitle(summary),
         description |-> IssueDescription(summary,
                                          create_details_string_from_json(json_data),
                                          get_stacktrace_from_message(json_data).value)]

\* what update_issue_with_attachments posts, in order: the stack trace, the
\* log archive if any, every screenshot
Attachments(json_data) ==
    <<[type |-> "text", filename |-> "stacktrace.txt",
       content |-> get_stacktrace_from_message(json_data).value]>>
    \o (IF "logs" \in json_data.keys
        THEN <<[type |-> "binary", filename |-> "logfiles.zip", content |-> json_data.logs]>>
        ELSE <<>>)
    \o (IF "screenshots" \in json_data.keys
        THEN [i \in DOMAIN json_data.screenshots |->
                [type |-> "binary", filename |-> "screenshot.jpg",
                 content |-> json_data.screenshots[i]]]
        ELSE <<>>)

(***************************************************************************)
(* The tracker.                                                            *)
(***************************************************************************)
SprintS1 == <<83, 49>>  \* "S1"
SprintS2 == <<83, 50>>  \* "S2"
SprintNames == {SprintS1, SprintS2}

\* an issue as a search lists it
Issue(key, fields, status, environment, fix_versions) ==
    [key |-> key,
     fields |-> [summary      |-> fields.summary,
                 description  |-> fields.description,
                 status       |-> [name |-> status],
                 environment  |-> environment,
                 fixVersions  |-> fix_versions]]

\* how many issues the tracker may hold at the start
MaxSeedIssues == 5

\* The i-th issue the tracker may hold at the start, filed earlier by
\* add_to_jira: for report 1, closed in sprint S1 after three occurrences;
\* for report 2, open; for report 3, as created (open, without environment
\* or fix versions); for report 1, resolved, with fix versions S1 and S2;
\* for the report LongStored, open.
SeedIssue(i) ==
    CASE i % 5 = 1 -> Issue(i, NewIssueFields(Reports[1]), <<67, 108, 111, 115, 101, 100>>,  \* "Closed"
                            << <<67, 111, 117, 110, 116, 58, 32, 51, 10,  \* "Count: 3\n"
                                 76, 97, 115, 116, 58, 32, 50, 48, 50, 53>> >>,  \* "Last: 2025"
                            <<[name |-> SprintS1]>>)
      [] i % 5 = 2 -> Issue(i, NewIssueFields(Reports[2]), <<79, 112, 101, 110>>,  \* "Open"
                            << <<>> >>, <<[name |-> SprintS1]>>)
      [] i % 5 = 3 -> Issue(i, NewIssueFields(Reports[3]), <<79, 112, 101, 110>>,  \* "Open"
                            <<>>, <<>>)
      [] i % 5 = 4 -> Issue(i, NewIssueFields(Reports[1]),
                            <<82, 69, 83, 79, 76, 86, 69, 68>>, <<>>,  \* "RESOLVED"
                            <<[name |-> SprintS1], [name |-> SprintS2]>>)
      [] OTHER     -> Issue(i, NewIssueFields(LongStored), <<79, 112, 101, 110>>,  \* "Open"
                            <<>>, <<[name |-> SprintS1]>>)

SeedIssues(n) == [i \in 1..n |-> SeedIssue(i)]

\* the largest page size the tracker's search may report
MaxPageSize == 3

\* how deep find_existing_jira_issues may nest before the interpreter raises
\* RecursionError (scaled down; fewer pages than the largest seeded tracker
\* has at page size 1)
RecursionLimit == 4

\* the two workers, each serving one request: one request alone, or two
\* requests one after the other or overlapping
Workers == {1, 2}

\* the status a new issue gets, and the one the reopen transition leads to
StatusOpen == <<79, 112, 101, 110>>  \* "Open"
StatusReopened == <<82, 101, 111, 112, 101, 110, 101, 100>>  \* "Reopened"

_JIRA_TRANSITION_REOPEN_ID == 3

(***************************************************************************)
(* Requests.  A worker serves one request; pc is where it stands:          *)
(*   idle -> search -> (sprint -> update -> [transition]) | create         *)
(*        -> attach -> done                                                *)
(* and "off" for a worker that is not running.  calls is the log of the    *)
(* tracker calls it made.                                                  *)
(***************************************************************************)
NoResponse == [kind |-> "none", status |-> 0, key |-> 0, exc |-> "none"]

Idle ==
    [pc |-> "idle", report |-> 0, start_at |-> 0, pages |-> <<>>, seen |-> <<>>,
     is_duplicate |-> NegativeVerdict, sprint |-> <<>>, should_reopen |-> FALSE,
     issue_id |-> 0, attached |-> 0, calls |-> <<>>, response |-> NoResponse]

Off == [Idle EXCEPT !.pc = "off"]

Call(op, key, status, text) == [op |-> op, key |-> key, status |-> status, text |-> text]

\* 'Jira issue added: {}', 201
Added(key) == [kind |-> "added", status |-> 201, key |-> key, exc |-> "none"]

\* 'Jira issue already exists, updated: {}'
Updated(key) == [kind |-> "updated", status |-> 200, key |-> key, exc |-> "none"]

\* 'Error during processing; ...', 500: what receive_exception answers to an InternalError
ErrorResponse == [kind |-> "error", status |-> 500, key |-> 0, exc |-> "InternalError"]

\* an exception receive_exception does not catch: it leaves the handler, and
\* the web framework answers for it
Unhandled(e) == [kind |-> "unhandled", status |-> 500, key |-> 0, exc |-> e]

\* jsonify(show_all_open_issues())
Listing == [kind |-> "listing", status |-> 200, key |-> 0, exc |-> "none"]

Finish(r, response) == [r EXCEPT !.pc = "done", !.response = response, !.pages = <<>>]

Keys(issue_list) == [i \in DOMAIN issue_list |-> issue_list[i].key]

(***************************************************************************)
(* The request handler, receive_exception, one action per tracker call.    *)
(***************************************************************************)
\* in serial mode request w is received when the requests before it are done
MayStart(w) ==
    mode = "serial" => \A v \in Workers : v < w => req[v].pc = "done"

\* POST with a JSON body: add_jira_exception up to the first tracker call.
\* determine_if_duplicate starts with get_summary_from_message, which raises
\* KeyError or IndexError for a report without cause frames.
Receive(w) ==
    /\ req[w].pc = "idle"
    /\ MayStart(w)
    /\ \E r \in ReportIds :
          LET exception_summary == get_summary_from_message(Reports[r])
              r1 == [req[w] EXCEPT !.report = r]
          IN  req' = [req EXCEPT ![w] =
                        IF Raised(exception_summary)
                        THEN Finish(r1, Unhandled(exception_summary.exc))
                        ELSE [r1 EXCEPT !.pc = "search"]]
    /\ UNCHANGED <<JIRA_ISSUE_TITLE, issues, current_sprint, max_results, mode, san>>

\* A call of the tracker that gets no answer raises ConnectionError in
\* requests, which is no InternalError; status_code 0 stands for it.
NoAnswer(status_code) == status_code = 0

\* any other request: jsonify(show_all_open_issues())
ShowAllOpenIssues(w) ==
    /\ req[w].pc = "idle"
    /\ MayStart(w)
    /\ \E status_code \in {0, 200, 500} :
          req' = [req EXCEPT ![w] =
                    Finish([@ EXCEPT !.calls = Append(@, Call("list", 0, status_code, <<>>))],
                           IF NoAnswer(status_code) THEN Unhandled("ConnectionError")
                           ELSE IF status_code # 200 THEN ErrorResponse ELSE Listing)]
    /\ UNCHANGED <<JIRA_ISSUE_TITLE, issues, current_sprint, max_results, mode, san>>

\* what determine_if_duplicate makes of the issues found: an exception of
\* the loop leaves the handler, a verdict leads to the update or the create
SearchVerdict(r1, issue_list, verdict) ==
    IF Raised(verdict)
    THEN Finish([r1 EXCEPT !.seen = Keys(issue_list)], Unhandled(verdict.exc))
    ELSE [r1 EXCEPT !.pages = <<>>,
                    !.seen = Keys(issue_list),
                    !.is_duplicate = verdict.value,
                    !.issue_id = verdict.value.key,
                    !.pc = IF verdict.value.is_duplicate THEN "sprint" ELSE "create"]

\* the request r after the page at r.start_at was answered with status_code
\* and, on a 200, with pages: the pages fetched before and this one
SearchAnswer(r, r1, pages, status_code) ==
    IF NoAnswer(status_code) THEN Finish(r1, Unhandled("ConnectionError"))
    ELSE IF ~SearchOk(status_code) THEN Finish(r1, ErrorResponse)
    ELSE IF MorePages(Len(issues), r.start_at, max_results)
    THEN IF Len(pages) >= RecursionLimit
         THEN Finish(r1, Unhandled("RecursionError"))
         ELSE [r1 EXCEPT !.pages = pages, !.start_at = @ + max_results]
    ELSE SearchVerdict(r1, Unwind(pages),
                       determine_if_duplicate(
                           get_stacktrace_from_message(Reports[r.report]).value,
                           Unwind(pages)))

\* One call of find_existing_jira_issues: the search from start_at.  After
\* the last page the recursion returns and determine_if_duplicate runs its
\* loop over the issues found.  Each page is a nested call, so a search
\* that nests deeper than the interpreter allows ends in RecursionError.
SearchPage(w) ==
    /\ req[w].pc = "search"
    /\ \E status_code \in {0, 200, 500} :
          LET last == Min(req[w].start_at + max_results, Len(issues))
          IN  req' = [req EXCEPT ![w] =
                        SearchAnswer(req[w],
                                     [req[w] EXCEPT
                                        !.calls = Append(@, Call("search", 0, status_code,
                                                                 FormatInt(req[w].start_at)))],
                                     Append(req[w].pages,
                                            SubSeq(issues, req[w].start_at + 1, last)),
                                     status_code)]
    /\ UNCHANGED <<JIRA_ISSUE_TITLE, issues, current_sprint, max_results, mode, san>>

\* What get_current_sprint can meet: an answer naming the active sprint; an
\* answer whose 'values' is empty (no active sprint: IndexError); an answer
\* without 'values', such as an error body (KeyError); no answer at all
\* (ConnectionError).  The status of the answer is not looked at.
SprintAnswers == {"sprint", "no sprint", "no values", "no answer"}

SprintStatus(answer) ==
    CASE answer = "no values" -> 400
      [] answer = "no answer" -> 0
      [] OTHER                -> 200

SprintError(answer) ==
    CASE answer = "no sprint" -> "IndexError"
      [] answer = "no values" -> "KeyError"
      [] OTHER                -> "ConnectionError"

\* should_reopen_if_closed: get_current_sprint() asks the tracker; what it
\* raises is no InternalError and leaves the handler
GetCurrentSprint(w) ==
    /\ req[w].pc = "sprint"
    /\ \E answer \in SprintAnswers :
          req' = [req EXCEPT ![w] =
                    IF answer # "sprint"
                    THEN Finish([@ EXCEPT !.calls = Append(@, Call("sprint", 0,
                                                          SprintStatus(answer), <<>>))],
                                Unhandled(SprintError(answer)))
                    ELSE [@ EXCEPT !.pc = "update",
                                   !.sprint = current_sprint,
                                   !.should_reopen =
                                       should_reopen_if_closed(
                                           is_issue_closed(req[w].is_duplicate.status),
                                           req[w].is_duplicate.fix_version,
                                           current_sprint),
                                   !.calls = Append(@, Call("sprint", 0, 200,
                                                            current_sprint))]]
    /\ UNCHANGED <<JIRA_ISSUE_TITLE, issues, current_sprint, max_results, mode, san>>

\* update_to_jira up to its status check: the PUT of the new environment
UpdateToJira(w) ==
    /\ req[w].pc = "update"
    /\ \E status_code \in {0, 204, 400} :
          LET r == req[w]
              environment == calculate_issue_occurrence_count(r.is_duplicate.environment)
              r1 == [r EXCEPT !.calls = Append(@, Call("update", r.issue_id, status_code,
                                                       environment))]
          IN  /\ req' = [req EXCEPT ![w] =
                           IF NoAnswer(status_code)
                           THEN Finish(r1, Unhandled("ConnectionError"))
                           ELSE IF status_code # 204 THEN Finish(r1, ErrorResponse)
                           ELSE [r1 EXCEPT !.pc = IF r.should_reopen
                                                  THEN "transition" ELSE "attach"]]
              /\ issues' = IF status_code # 204 THEN issues
                           ELSE [issues EXCEPT ![r.issue_id].fields.environment =
                                                   <<environment>>]
    /\ UNCHANGED <<JIRA_ISSUE_TITLE, current_sprint, max_results, mode, san>>

\* update_to_jira, do_status_transition: the POST of the reopen transition,
\* whose response is only logged
Transition(w) ==
    /\ req[w].pc = "transition"
    /\ \E status_code \in {0, 204, 400} :
          /\ LET r1 == [req[w] EXCEPT
                          !.calls = Append(@, Call("transition", req[w].issue_id,
                                                   status_code,
                                                   FormatInt(_JIRA_TRANSITION_REOPEN_ID)))]
             IN  req' = [req EXCEPT ![w] =
                           IF NoAnswer(status_code)
                           THEN Finish(r1, Unhandled("ConnectionError"))
                           ELSE [r1 EXCEPT !.pc = "attach"]]
          /\ issues' = IF status_code # 204 THEN issues
                       ELSE [issues EXCEPT ![req[w].issue_id].fields.status.name =
                                               StatusReopened]
    /\ UNCHANGED <<JIRA_ISSUE_TITLE, current_sprint, max_results, mode, san>>

\* add_to_jira: the POST that creates the issue.  The tracker numbers the
\* issue and lists it after the others, open, without environment or fix
\* versions.
AddToJira(w) ==
    /\ req[w].pc = "create"
    /\ \E status_code \in {0, 201, 400} :
          LET r   == req[w]
              key == Len(issues) + 1
              fields == NewIssueFields(Reports[r.report])
          IN  /\ req' = [req EXCEPT ![w] =
                   IF status_code # 201
                   THEN Finish([r EXCEPT !.calls = Append(@, Call("create", 0, status_code,
                                                                  fields.summary))],
                               IF NoAnswer(status_code) THEN Unhandled("ConnectionError")
                               ELSE ErrorResponse)
                   ELSE [r EXCEPT !.pc = "attach",
                                  !.issue_id = key,
                                  !.calls = Append(@, Call("create", key, status_code,
                                                           fields.summary))]]
              /\ issues' = IF status_code # 201 THEN issues
                           ELSE Append(issues, Issue(key, fields, StatusOpen, <<>>, <<>>))
    /\ UNCHANGED <<JIRA_ISSUE_TITLE, current_sprint, max_results, mode, san>>

\* add_attachment catches InternalError, which nothing in it raises: an
\* exception of the POST (status_code 0: no response) leaves it
AttachmentSwallowed(exc) == exc = "InternalError"

\* update_issue_with_attachments, one attachment per step: a binary one is
\* decoded first (base64.b64decode, outside add_attachment), then posted;
\* the response is only logged.  After the last one the handler answers.
AddAttachment(w) ==
    /\ req[w].pc = "attach"
    /\ LET r       == req[w]
           todo    == Attachments(Reports[r.report])
           success == IF r.is_duplicate.is_duplicate
                      THEN Updated(r.issue_id) ELSE Added(r.issue_id)
       IN  IF r.attached = Len(todo)
           THEN req' = [req EXCEPT ![w] = Finish(r, success)]
           ELSE LET a == todo[r.attached + 1]
                    decoded == IF a.type = "binary" THEN b64decode(a.content)
                               ELSE Ok(a.content)
                IN  IF Raised(decoded)
                    THEN req' = [req EXCEPT ![w] = Finish(r, Unhandled(decoded.exc))]
                    ELSE \E status_code \in {0, 200, 500} :
                           LET r1 == [r EXCEPT !.attached = @ + 1,
                                               !.calls = Append(@, Call("attach", r.issue_id,
                                                                        status_code, a.filename))]
                               exc == IF NoAnswer(status_code) THEN "ConnectionError" ELSE "none"
                           IN  req' = [req EXCEPT ![w] =
                                         IF exc # "none" /\ ~AttachmentSwallowed(exc)
                                         THEN Finish(r1, Unhandled(exc))
                                         ELSE r1]
    /\ UNCHANGED <<JIRA_ISSUE_TITLE, issues, current_sprint, max_results, mode, san>>

Next ==
    \E w \in Workers :
        \/ Receive(w)
        \/ ShowAllOpenIssues(w)
        \/ SearchPage(w)
        \/ GetCurrentSprint(w)
        \/ UpdateToJira(w)
        \/ Transition(w)
        \/ AddToJira(w)
        \/ AddAttachment(w)

InitTracker ==
    /\ JIRA_ISSUE_TITLE = Title(ShortTitleLen)
    /\ issues \in {SeedIssues(n) : n \in 0..MaxSeedIssues}
    /\ current_sprint \in SprintNames
    /\ max_results \in 0..MaxPageSize
    /\ san = [raw |-> <<>>, flag |-> FALSE, outs |-> <<>>]

\* one request, served by worker 1, against any tracker
Init ==
    /\ InitTracker
    /\ mode = "serial"
    /\ req = [w \in Workers |-> IF w = 1 THEN Idle ELSE Off]

Spec == Init /\ [][Next]_vars

\* a request per worker, served one after the other or overlapping, against
\* a tracker that holds no issue yet or the first seed issue (closed) and
\* lists its issues one by one or on pages of the largest size
InitRace ==
    /\ InitTracker
    /\ Len(issues) <= 1
    /\ max_results \in {1, MaxPageSize}
    /\ mode \in {"serial", "concurrent"}
    /\ req = [w \in Workers |-> Idle]

SpecRace == InitRace /\ [][Next]_vars

(***************************************************************************)
(* Properties.                                                             *)
(***************************************************************************)
Running == {w \in Workers : req[w].pc # "off"}

Done(w) == req[w].pc = "done"

\* the calls of worker w with operation op and status code
CallsWith(w, op, code) ==
    {i \in DOMAIN req[w].calls : req[w].calls[i].op = op /\ req[w].calls[i].status = code}

CallsOf(w, op) == {i \in DOMAIN req[w].calls : req[w].calls[i].op = op}

\* a page of w's search came back with a status other than 200
SearchFailed(w) ==
    \E i \in CallsOf(w, "search") :
        ~NoAnswer(req[w].calls[i].status) /\ req[w].calls[i].status # 200

\* w's search fetched its last page, every page with status 200
SearchConcluded(w) ==
    /\ req[w].pc \in {"sprint", "update", "transition", "create", "attach", "done"}
    /\ CallsOf(w, "search") # {}
    /\ \A i \in CallsOf(w, "search") : req[w].calls[i].status = 200

NewTrace(w) == get_stacktrace_from_message(Reports[req[w].report]).value

\* the incoming trace of w, trimmed, and the trace stored in issue k agree
\* on the throw location, both having one
SameThrowLocation(w, k) ==
    LET new   == first_line_caused_by_from_printed_stacktrace(
                     new_trimmed(NewTrace(w), issues[k]))
        issue == first_line_caused_by_from_printed_stacktrace(
                     get_stacktrace_from_issue(issues[k]))
    IN  new # <<>> /\ issue # <<>> /\ new = issue

DifferentThrowLocation(w, k) ==
    LET new   == first_line_caused_by_from_printed_stacktrace(
                     new_trimmed(NewTrace(w), issues[k]))
        issue == first_line_caused_by_from_printed_stacktrace(
                     get_stacktrace_from_issue(issues[k]))
    IN  new # <<>> /\ issue # <<>> /\ new # issue

\* the ratio of the two traces exceeds 0.7, the stored one not being empty
HighRatio(w, k) ==
    LET issue_stacktrace == get_stacktrace_from_issue(issues[k])
        trimmed == Take(NewTrace(w), Len(issue_stacktrace))
    IN  /\ issue_stacktrace # <<>>
        /\ 10 * 2 * MatchingSize(trimmed, issue_stacktrace, 0, Len(trimmed),
                                 0, Len(issue_stacktrace))
             > 7 * (Len(trimmed) + Len(issue_stacktrace))

\* the exception class a "Caused by" line names: its text between the
\* marker and the next colon
CausedByClass(line) == PartitionHead(Drop(line, Len(TxtCausedBy)), 58)  \* ":"

\* texts a and b have the same lines but for their last "Caused by" line,
\* and those two differ in nothing but the exception class they name
DiffersOnlyInFinalCausedByClass(a, b) ==
    LET la == SplitLines(a)
        lb == SplitLines(b)
        ha == {i \in DOMAIN la : RegexCausedByMatches(la[i])}
        hb == {i \in DOMAIN lb : RegexCausedByMatches(lb[i])}
    IN  /\ Len(la) = Len(lb)
        /\ ha # {} /\ ha = hb
        /\ LET last == SetMax(ha)
           IN  /\ \A i \in DOMAIN la : i # last => la[i] = lb[i]
               /\ CausedByClass(la[last]) # CausedByClass(lb[last])
               /\ Drop(la[last], Len(TxtCausedBy) + Len(CausedByClass(la[last])))
                    = Drop(lb[last], Len(TxtCausedBy) + Len(CausedByClass(lb[last])))

\* C2 as stated: a candidate whose stored trace differs from the incoming
\* trace only in the exception class named on the final "Caused by" line is
\* never reported as the match.
C2_ClassNameMismatchNeverMatches ==
    \A w \in Running :
        req[w].is_duplicate.is_duplicate =>
            ~DiffersOnlyInFinalCausedByClass(
                 NewTrace(w), get_stacktrace_from_issue(issues[req[w].is_duplicate.key]))

\* C2 as amended: a candidate is reported as the match only if the text
\* before the first colon of the line after the last "Caused by" line is
\* the same in the trimmed incoming trace and in the stored trace, whatever
\* the similarity ratio.
C2_ThrowLocationMismatchNeverMatches ==
    \A w \in Running :
        req[w].is_duplicate.is_duplicate =>
            SameThrowLocation(w, req[w].is_duplicate.key)

\* a candidate of ratio above 0.7 with another throw location was passed over
C2_Witness ==
    \E w \in Running :
        /\ SearchConcluded(w)
        /\ \E i \in DOMAIN req[w].seen :
              LET k == req[w].seen[i]
              IN  /\ HighRatio(w, k)
                  /\ DifferentThrowLocation(w, k)
                  /\ req[w].is_duplicate.key # k

\* C3: once the create (201) or the update (204) succeeded, no failure of an
\* attachment step changes the outcome: the request answers with its success
\* response for the issue, and every attachment of the report was attempted
\* (a reopening transition, when one was called, having been answered).
C3_AttachmentFailuresSwallowed ==
    \A w \in Running :
        (/\ Done(w)
         /\ CallsWith(w, "create", 201) # {} \/ CallsWith(w, "update", 204) # {}
         /\ CallsWith(w, "transition", 0) = {})
        => /\ req[w].response.kind \in {"added", "updated"}
           /\ req[w].response.key = req[w].issue_id
           /\ Cardinality(CallsOf(w, "attach")) = Len(Attachments(Reports[req[w].report]))

\* C4: a search page answered with a status other than 200 aborts the
\* request: the answer is the 500 error response and no call but searches
\* was or is ever issued for it.
C4_SearchFailureAborts ==
    \A w \in Running :
        SearchFailed(w) =>
            /\ Done(w)
            /\ req[w].response = ErrorResponse
            /\ \A i \in DOMAIN req[w].calls : req[w].calls[i].op = "search"

\* a later page failed after the first page had listed a matching issue
C4_Witness ==
    \E w \in Running :
        /\ SearchFailed(w)
        /\ max_results >= 1
        /\ Len(req[w].calls) >= 2
        /\ req[w].calls[1].status = 200
        /\ issues # <<>>
        /\ HighRatio(w, 1)
        /\ SameThrowLocation(w, 1)

\* the occurrence count an environment shows in the form the service writes
\* it, 0 if it shows none
OccurrencesShown(environment) ==
    IF environment # <<>> /\ Take(environment[1], Len(TxtCount)) = TxtCount
    THEN ParseInt(LeadingDigits(Drop(environment[1], Len(TxtCount))))
    ELSE 0

\* the matched issue of w is closed or resolved, whatever the case of the
\* letters, and its latest fix version is not the sprint the tracker named
ReopenIndicated(w) ==
    /\ Lower(req[w].is_duplicate.status) \in {TxtClosed, TxtResolved}
    /\ req[w].is_duplicate.fix_version # current_sprint

\* C6: on the duplicate path the matched issue's environment is updated to
\* the incremented occurrence count, and the reopen transition is issued if
\* and only if the issue is closed or resolved (in any letter case) and its
\* latest fix version is not the active sprint, and only after the update
\* answered 204.
C6_ReopenIffClosedOutsideSprint ==
    \A w \in Running :
        LET v == req[w].is_duplicate
        IN  /\ ~v.is_duplicate =>
                  CallsOf(w, "update") = {} /\ CallsOf(w, "transition") = {}
            /\ v.is_duplicate =>
                  /\ \A i \in CallsOf(w, "update") :
                        /\ req[w].calls[i].key = v.key
                        /\ req[w].calls[i].text =
                              TxtCount \o FormatInt(OccurrencesShown(v.environment) + 1)
                              \o <<10>> \o TxtLast \o Now  \* "\n"
                  /\ req[w].pc \in {"transition", "attach"} => CallsWith(w, "update", 204) # {}
                  /\ req[w].response.kind = "updated" => CallsWith(w, "update", 204) # {}
                  /\ \A i \in CallsOf(w, "transition") :
                        /\ req[w].calls[i].key = v.key
                        /\ ReopenIndicated(w)
                        /\ \E j \in CallsWith(w, "update", 204) : j < i
                  /\ (req[w].pc \in {"attach", "done"} /\ CallsWith(w, "update", 204) # {}
                      /\ ReopenIndicated(w))
                     => CallsOf(w, "transition") # {}

\* an issue whose status is written "Closed" or "RESOLVED" was reopened
C6_Witness ==
    \E w \in Running :
        /\ req[w].is_duplicate.is_duplicate
        /\ req[w].is_duplicate.status \notin {TxtClosed, TxtResolved}
        /\ CallsOf(w, "transition") # {}
        /\ OccurrencesShown(req[w].is_duplicate.environment) > 0
        /\ Done(w)

\* C7: every POSTed JSON report ends in exactly one of three outcomes: 201
\* with the key exactly when one create succeeded and no update was made;
\* the "already exists, updated" answer exactly when one update succeeded
\* and no create was made; a 500 answer for every fatal error (one the
\* handler did not catch is answered 500 as well).
C7_ThreeOutcomes ==
    \A w \in Running :
        (Done(w) /\ req[w].report # 0) =>
            LET creates == Cardinality(CallsWith(w, "create", 201))
                updates == Cardinality(CallsWith(w, "update", 204))
            IN  /\ \/ req[w].response.kind = "added" /\ req[w].response.status = 201
                   \/ req[w].response.kind = "updated" /\ req[w].response.status = 200
                   \/ req[w].response.kind \in {"error", "unhandled"}
                      /\ req[w].response.status = 500
                /\ req[w].response.kind = "added" <=> (creates = 1 /\ updates = 0)
                /\ req[w].response.kind = "updated" <=> (updates = 1 /\ creates = 0)

\* issue k passes the similarity matcher against the incoming trace of w
PassesMatcher(w, k) == HighRatio(w, k) /\ SameThrowLocation(w, k)

\* C9: the positive verdict carries the key of the first issue, in the order
\* the tracker listed the issues (page 1 before page 2), that passes the
\* matcher.
C9_FirstMatchInTrackerOrder ==
    \A w \in Running :
        req[w].is_duplicate.is_duplicate =>
            req[w].is_duplicate.key =
                SetMin({k \in Range(req[w].seen) : PassesMatcher(w, k)})

\* how many issues the tracker held when w searched: the one w created
\* since is not among them
TotalAtSearch(w) == Len(issues) - Cardinality(CallsWith(w, "create", 201))

\* how many pages the pagination contract makes w's search request: startAt
\* = 0 and then m, 2m, ... while total > startAt + m
PagesNeeded(w) ==
    IF TotalAtSearch(w) = 0 THEN 1
    ELSE (TotalAtSearch(w) + max_results - 1) \div max_results

\* the search of w went as the pagination contract says: startAt = 0, m,
\* 2m, ... requested while total > startAt + m, an end that is no
\* RecursionError, and each of the total issues returned exactly once
PaginationComplete(w) ==
    /\ \A i \in DOMAIN req[w].calls :
          req[w].calls[i].op = "search" =>
              /\ req[w].calls[i].text = FormatInt((i - 1) * max_results)
              /\ i > 1 => TotalAtSearch(w) > (i - 1) * max_results
    /\ req[w].response.exc # "RecursionError"
    /\ SearchConcluded(w) =>
          /\ Len(req[w].seen) = TotalAtSearch(w)
          /\ Range(req[w].seen) = 1..TotalAtSearch(w)
          /\ TotalAtSearch(w) <= Cardinality(CallsOf(w, "search")) * max_results

\* C10 as stated: for every total and every page size the tracker reports,
\* the search ends after requesting startAt = 0, m, 2m, ... while
\* total > startAt + m, and returns each of the total issues exactly once.
C10_PaginationCompleteAnyPageSize ==
    \A w \in Running : PaginationComplete(w)

\* C10 as amended: the same for every total and every page size of at least
\* one whose pages, each a nested call, are no more than the interpreter
\* lets find_existing_jira_issues nest.
C10_PaginationComplete ==
    \A w \in Running :
        (max_results >= 1 /\ PagesNeeded(w) <= RecursionLimit) => PaginationComplete(w)

\* C10, where the amendment stops: a search with every page answered 200
\* that needs more nested calls than the interpreter allows, for a page
\* size of 0 or for too many pages, ends in RecursionError after
\* RecursionLimit requests and returns no list.
C10_DeepSearchRaises ==
    \A w \in Running :
        (/\ Done(w)
         /\ Cardinality(CallsWith(w, "search", 200)) = Cardinality(CallsOf(w, "search"))
         /\ CallsOf(w, "search") # {}
         /\ IF max_results = 0 THEN TotalAtSearch(w) > 0
            ELSE PagesNeeded(w) > RecursionLimit)
        => /\ req[w].response.exc = "RecursionError"
           /\ Cardinality(CallsOf(w, "search")) = RecursionLimit

\* a search of several pages whose last page was not full
C10_Witness ==
    \E w \in Running :
        /\ max_results >= 1
        /\ SearchConcluded(w)
        /\ Cardinality(CallsOf(w, "search")) >= 2
        /\ TotalAtSearch(w) % max_results # 0

(***************************************************************************)
(* Properties of two requests (SpecRace).                                  *)
(***************************************************************************)
\* what makes two reports the same exception: summary and stack trace
ExceptionOf(r) ==
    <<get_summary_from_message(Reports[r]).value,
      get_stacktrace_from_message(Reports[r]).value>>

\* w created an issue
Created(w) == CallsWith(w, "create", 201) # {}

\* v and w created an issue each for the same exception
CreatedTwice(v, w) ==
    /\ v # w
    /\ Created(v) /\ Created(w)
    /\ ExceptionOf(req[v].report) = ExceptionOf(req[w].report)

\* C1: when a first request found no match and created issue K, and the
\* search of a second request with the identical report lists K, the second
\* request's verdict is positive and carries K.
C1_IdenticalReportMatchesFirstIssue ==
    \A v \in Running : \A w \in Running :
        (/\ v # w
         /\ req[v].response.kind = "added"
         /\ req[w].report = req[v].report
         /\ req[w].pc \in {"sprint", "update", "transition", "create", "attach", "done"}
         /\ ~SearchFailed(w)
         /\ req[v].issue_id \in Range(req[w].seen))
        => /\ req[w].is_duplicate.is_duplicate
           /\ req[w].is_duplicate.key = req[v].issue_id

\* C5: two issues for one exception are created only by requests that each
\* searched before the other created (neither search listed the other's
\* issue), which overlapping requests can do and requests served one after
\* the other cannot.
C5_DuplicatesOnlyByRace ==
    \A v \in Running : \A w \in Running :
        CreatedTwice(v, w) =>
            /\ mode = "concurrent"
            /\ req[v].issue_id \notin Range(req[w].seen)
            /\ req[w].issue_id \notin Range(req[v].seen)

\* two overlapping requests with the same new exception both created an issue
C5_Witness ==
    \E v \in Running : \E w \in Running :
        /\ CreatedTwice(v, w)
        /\ mode = "concurrent"
        /\ ~req[v].is_duplicate.is_duplicate /\ ~req[w].is_duplicate.is_duplicate
        /\ Done(v) /\ Done(w)

(***************************************************************************)
(* SpecSanitize: sanitize_jql_summary applied to a raw summary, then to    *)
(* its own result.                                                         *)
(***************************************************************************)
SanAlphabet == {97, 58, 32, 9, 11, 45}

RawSummaries == UNION {[1..n -> SanAlphabet] : n \in 0..MaxRawLen}

SanIdle == [raw |-> <<>>, flag |-> FALSE, outs |-> <<>>]

InitSanitize ==
    /\ JIRA_ISSUE_TITLE \in {Title(ShortTitleLen), Title(LongTitleLen),
                            Title(OverlongTitleLen)}
    /\ issues = <<>>
    /\ current_sprint = <<>>
    /\ max_results = 1
    /\ mode = "serial"
    /\ req = [w \in Workers |-> Idle]
    /\ san \in [raw : RawSummaries, flag : BOOLEAN, outs : {<<>>}]

\* sanitize_jql_summary(raw, flag)
SanitizeOnce ==
    /\ Len(san.outs) = 0
    /\ san' = [san EXCEPT !.outs = <<sanitize_jql_summary(san.raw, san.flag)>>]
    /\ UNCHANGED <<JIRA_ISSUE_TITLE, issues, current_sprint, max_results, mode, req>>

\* sanitize_jql_summary(sanitize_jql_summary(raw, flag), flag)
SanitizeAgain ==
    /\ Len(san.outs) = 1
    /\ san' = [san EXCEPT !.outs = Append(@, sanitize_jql_summary(san.outs[1], san.flag))]
    /\ UNCHANGED <<JIRA_ISSUE_TITLE, issues, current_sprint, max_results, mode, req>>

NextSanitize == SanitizeOnce \/ SanitizeAgain

SpecSanitize == InitSanitize /\ [][NextSanitize]_vars

\* C8: sanitize_jql_summary is idempotent for both values of the query flag:
\* applying it to its own result gives that result back.
C8_SanitizeIdempotent ==
    Len(san.outs) = 2 => san.outs[2] = san.outs[1]

====
